---- MODULE Spec2Model ----
(***************************************************************************)
(* Model of OPTools/Icons/convert_svg_to_ico.py: the import guard, the     *)
(* __main__ block and svg_to_ico, one action per statement group.  The     *)
(* external collaborators (svg2rlg, renderPM.drawToString, Image.open,     *)
(* Image.resize, Image.convert, Image.save) succeed or raise               *)
(* nondeterministically; what they return on success is modelled by what   *)
(* the call does to the values the script holds.                           *)
(***************************************************************************)
EXTENDS Integers, Sequences, FiniteSets, TLC

VARIABLES pc, argSizes, sizes, images, drawing, i, png, img, console,
          exit, icoFile, encArgs, loadCount, writeCount, attempts,
          run, first

vars == <<pc, argSizes, sizes, images, drawing, i, png, img, console,
          exit, icoFile, encArgs, loadCount, writeCount, attempts,
          run, first>>

\* ------------------------------------------------------------------ bounds
MaxLen == 3
MaxLenTwice == 2

\* --------------------------------------------------------------- constants
RefSize == 256
DPI == 96
Running == -1

SizeSet == {16, 32, 48}
DefaultSizes == <<16, 32, 48, 64, 96, 128, 256>>
\* the pixel modes a decoded PNG is given here; "L" (grayscale) stands for
\* every mode other than RGBA and RGB, which lines 61-66 treat alike
Modes == {"RGBA", "RGB", "L"}

\* ----------------------------------------------------------------- helpers
RECURSIVE GCD(_, _)
GCD(a, b) == IF b = 0 THEN a ELSE GCD(b, a % b)

SeqsUpTo(S, n) == UNION {[1..k -> S] : k \in 0..n}

\* a Drawing's transform multiplied by scale(sx, sx), sx = num / den;
\* the scale factor of the transform is kept as the reduced fraction sn/sd
GroupScale(d, num, den) ==
    LET g  == GCD(num, den)
        n1 == d.sn * (num \div g)
        d1 == d.sd * (den \div g)
        h  == GCD(n1, d1)
    IN  [d EXCEPT !.sn = n1 \div h, !.sd = d1 \div h]

\* the drawing svg2rlg returns: native 256x256, identity transform
FreshDrawing == [loaded |-> TRUE, width |-> RefSize, height |-> RefSize,
                 sn |-> 1, sd |-> 1]
NoDrawing == [loaded |-> FALSE, width |-> 0, height |-> 0, sn |-> 1, sd |-> 1]

\* pixel edge renderPM allocates for a nominal length at the given dpi:
\* int(length * dpi / 72 + 0.5)
RasterDim(len) == (2 * len * DPI + 72) \div (2 * 72)

\* the pixel dimensions a rasterization of the drawing can come back with
RawDims(d) == {<<d.width, d.height>>, <<RasterDim(d.width), RasterDim(d.height)>>}

NoImg == [w |-> 0, h |-> 0, mode |-> "none", dw |-> 0, dh |-> 0, sn |-> 0, sd |-> 1]

\* what is rendered: the drawing's nominal size and transform at that moment
Rendered(d, dims, m) ==
    [w |-> dims[1], h |-> dims[2], mode |-> m,
     dw |-> d.width, dh |-> d.height, sn |-> d.sn, sd |-> d.sd]

Line(k, s) == [kind |-> k, size |-> s]

NoArgs == [called |-> FALSE, bitmaps |-> <<>>, sizes |-> <<>>]
NoFirst == [done |-> FALSE, images |-> <<>>, encArgs |-> NoArgs,
            console |-> <<>>, exit |-> Running]

\* whatever is at ico_path before the run (possibly nothing); never read
UntouchedFile == [state |-> "untouched", bitmaps |-> <<>>, sizes |-> <<>>]

\* sizes=[(img.size[0], img.size[1]) for img in images]
SizeDirectory(ims) == [k \in 1..Len(ims) |-> <<ims[k].w, ims[k].h>>]

\* ------------------------------------------------------------------- Init
Init ==
    /\ pc = "import"
    /\ argSizes \in {[none |-> TRUE, val |-> <<>>]}
                    \cup {[none |-> FALSE, val |-> v] : v \in SeqsUpTo(SizeSet, MaxLen)}
    /\ sizes = <<>>
    /\ images = <<>>
    /\ drawing = NoDrawing
    /\ i = 0
    /\ png = NoImg
    /\ img = NoImg
    /\ console = <<>>
    /\ exit = Running
    /\ icoFile = UntouchedFile
    /\ encArgs = NoArgs
    /\ loadCount = 0
    /\ writeCount = 0
    /\ attempts = <<>>
    /\ run = 1
    /\ first = NoFirst

\* ---------------------------------------------------------------- actions
\* lines 12-20: the guarded imports
ImportGuard ==
    /\ pc = "import"
    /\ \E ok \in BOOLEAN :
         IF ok
         THEN /\ pc' = "main"
              /\ UNCHANGED <<console, exit>>
         ELSE /\ console' = console \o <<Line("missing_library", 0), Line("install_hint", 0)>>
              /\ exit' = 1
              /\ pc' = "done"
    /\ UNCHANGED <<argSizes, sizes, images, drawing, i, png, img, icoFile,
                   encArgs, loadCount, writeCount, attempts, run, first>>

\* lines 92-101: the script entry point
Main ==
    /\ pc = "main"
    /\ \E exists \in BOOLEAN :
         IF exists
         THEN /\ pc' = "begin"
              /\ UNCHANGED <<console, exit>>
         ELSE /\ console' = Append(console, Line("svg_not_found", 0))
              /\ exit' = 1
              /\ pc' = "done"
    /\ UNCHANGED <<argSizes, sizes, images, drawing, i, png, img, icoFile,
                   encArgs, loadCount, writeCount, attempts, run, first>>


\* lines 22-29: default size list, empty image list, banner
Begin ==
    /\ pc = "begin"
    /\ sizes' = IF argSizes.none THEN DefaultSizes ELSE argSizes.val
    /\ images' = <<>>
    /\ console' = Append(console, Line("converting", 0))
    /\ pc' = "load"
    /\ UNCHANGED <<argSizes, drawing, i, png, img, exit, icoFile, encArgs,
                   loadCount, writeCount, attempts, run, first>>


\* Load that keeps a drawing parsed by an earlier call
Load_Cached ==
    /\ pc = "load"
    /\ loadCount' = loadCount + 1
    /\ \E res \in {"ok", "none", "raise"} :
         CASE res = "ok" ->
                /\ drawing' = IF drawing.loaded THEN drawing ELSE FreshDrawing
                /\ i' = 0
                /\ pc' = "loop"
                /\ UNCHANGED <<console, exit>>
           [] res = "none" ->
                /\ console' = Append(console, Line("load_failed", 0))
                /\ exit' = 1
                /\ pc' = "done"
                /\ UNCHANGED <<drawing, i>>
           [] res = "raise" ->
                /\ console' = Append(console, Line("load_error", 0))
                /\ exit' = 1
                /\ pc' = "done"
                /\ UNCHANGED <<drawing, i>>
    /\ UNCHANGED <<argSizes, sizes, images, png, img, icoFile, encArgs,
                   writeCount, attempts, run, first>>

\* Load without the exit when the parser yields no drawing
Load_IgnoreNone ==
    /\ pc = "load"
    /\ loadCount' = loadCount + 1
    /\ \E res \in {"ok", "none", "raise"} :
         CASE res = "ok" ->
                /\ drawing' = FreshDrawing
                /\ i' = 0
                /\ pc' = "loop"
                /\ UNCHANGED <<console, exit>>
           [] res = "none" ->
                /\ console' = Append(console, Line("load_failed", 0))
                /\ i' = 0
                /\ pc' = "loop"
                /\ UNCHANGED <<drawing, exit>>
           [] res = "raise" ->
                /\ console' = Append(console, Line("load_error", 0))
                /\ exit' = 1
                /\ pc' = "done"
                /\ UNCHANGED <<drawing, i>>
    /\ UNCHANGED <<argSizes, sizes, images, png, img, icoFile, encArgs,
                   writeCount, attempts, run, first>>

\* lines 31-39: load the SVG once
Load ==
    /\ pc = "load"
    /\ loadCount' = loadCount + 1
    /\ \E res \in {"ok", "none", "raise"} :
         CASE res = "ok" ->
                /\ drawing' = FreshDrawing
                /\ i' = 0
                /\ pc' = "loop"
                /\ UNCHANGED <<console, exit>>
           [] res = "none" ->
                /\ console' = Append(console, Line("load_failed", 0))
                /\ exit' = 1
                /\ pc' = "done"
                /\ UNCHANGED <<drawing, i>>
           [] res = "raise" ->
                /\ console' = Append(console, Line("load_error", 0))
                /\ exit' = 1
                /\ pc' = "done"
                /\ UNCHANGED <<drawing, i>>
    /\ UNCHANGED <<argSizes, sizes, images, png, img, icoFile, encArgs,
                   writeCount, attempts, run, first>>

\* line 41: the for statement takes the next size or leaves the loop
LoopHead ==
    /\ pc = "loop"
    /\ IF i < Len(sizes)
       THEN /\ i' = i + 1
            /\ attempts' = Append(attempts, sizes[i + 1])
            /\ pc' = "scale"
       ELSE /\ pc' = "check"
            /\ UNCHANGED <<i, attempts>>
    /\ UNCHANGED <<argSizes, sizes, images, drawing, png, img, console, exit,
                   icoFile, encArgs, loadCount, writeCount, run, first>>

\* lines 45-48: set the nominal size and scale the drawing
Scale ==
    /\ pc = "scale"
    /\ drawing' = GroupScale([drawing EXCEPT !.width = sizes[i], !.height = sizes[i]],
                             sizes[i], RefSize)
    /\ pc' = "render"
    /\ UNCHANGED <<argSizes, sizes, images, i, png, img, console, exit,
                   icoFile, encArgs, loadCount, writeCount, attempts, run, first>>

\* line 51: rasterize to PNG bytes
Render ==
    /\ pc = "render"
    /\ \/ \E dims \in RawDims(drawing), m \in Modes :
            /\ png' = Rendered(drawing, dims, m)
            /\ pc' = "decode"
       \/ /\ pc' = "except"
          /\ UNCHANGED png
    /\ UNCHANGED <<argSizes, sizes, images, drawing, i, img, console, exit,
                   icoFile, encArgs, loadCount, writeCount, attempts, run, first>>

\* line 54: decode the PNG bytes
Decode ==
    /\ pc = "decode"
    /\ \/ /\ img' = png
          /\ pc' = "resize"
       \/ /\ pc' = "except"
          /\ UNCHANGED img
    /\ UNCHANGED <<argSizes, sizes, images, drawing, i, png, console, exit,
                   icoFile, encArgs, loadCount, writeCount, attempts, run, first>>


\* Resize that trusts the rasterizer's dimensions
Resize_Skip ==
    /\ pc = "resize"
    /\ pc' = "mode"
    /\ UNCHANGED <<argSizes, sizes, images, drawing, i, png, img, console, exit,
                   icoFile, encArgs, loadCount, writeCount, attempts, run, first>>

\* lines 57-58: resize to the exact size if needed
Resize ==
    /\ pc = "resize"
    /\ IF <<img.w, img.h>> # <<sizes[i], sizes[i]>>
       THEN \/ /\ img' = [img EXCEPT !.w = sizes[i], !.h = sizes[i]]
               /\ pc' = "mode"
            \/ /\ pc' = "except"
               /\ UNCHANGED img
       ELSE /\ pc' = "mode"
            /\ UNCHANGED img
    /\ UNCHANGED <<argSizes, sizes, images, drawing, i, png, console, exit,
                   icoFile, encArgs, loadCount, writeCount, attempts, run, first>>


\* Normalize that converts every non-RGB mode, RGBA included
Normalize_Flatten ==
    /\ pc = "mode"
    /\ IF img.mode # "RGB"
       THEN \/ /\ img' = [img EXCEPT !.mode = "RGB"]
               /\ pc' = "append"
            \/ /\ pc' = "except"
               /\ UNCHANGED img
       ELSE /\ pc' = "append"
            /\ UNCHANGED img
    /\ UNCHANGED <<argSizes, sizes, images, drawing, i, png, console, exit,
                   icoFile, encArgs, loadCount, writeCount, attempts, run, first>>

\* lines 61-66: keep RGBA, convert any other non-RGB mode to RGB
Normalize ==
    /\ pc = "mode"
    /\ IF img.mode = "RGBA"
       THEN /\ pc' = "append"
            /\ UNCHANGED img
       ELSE IF img.mode # "RGB"
       THEN \/ /\ img' = [img EXCEPT !.mode = "RGB"]
               /\ pc' = "append"
            \/ /\ pc' = "except"
               /\ UNCHANGED img
       ELSE /\ pc' = "append"
            /\ UNCHANGED img
    /\ UNCHANGED <<argSizes, sizes, images, drawing, i, png, console, exit,
                   icoFile, encArgs, loadCount, writeCount, attempts, run, first>>

\* lines 68-69: collect the image and report it
AppendImg ==
    /\ pc = "append"
    /\ images' = Append(images, img)
    /\ console' = Append(console, Line("created", sizes[i]))
    /\ pc' = "loop"
    /\ UNCHANGED <<argSizes, sizes, drawing, i, png, img, exit, icoFile,
                   encArgs, loadCount, writeCount, attempts, run, first>>


\* a handler that gives up on the first failed size
Handler_Abort ==
    /\ pc = "except"
    /\ console' = Append(console, Line("warning", sizes[i]))
    /\ exit' = 1
    /\ pc' = "done"
    /\ UNCHANGED <<argSizes, sizes, images, drawing, i, png, img,
                   icoFile, encArgs, loadCount, writeCount, attempts, run, first>>

\* a handler that tries the failed size again
Handler_Retry ==
    /\ pc = "except"
    /\ console' = Append(console, Line("warning", sizes[i]))
    /\ i' = i - 1
    /\ pc' = "loop"
    /\ UNCHANGED <<argSizes, sizes, images, drawing, png, img, exit,
                   icoFile, encArgs, loadCount, writeCount, attempts, run, first>>

\* lines 70-74: the per-size handler warns and continues
Handler ==
    /\ pc = "except"
    /\ console' = Append(console, Line("warning", sizes[i]))
    /\ pc' = "loop"
    /\ UNCHANGED <<argSizes, sizes, images, drawing, i, png, img, exit,
                   icoFile, encArgs, loadCount, writeCount, attempts, run, first>>


\* the emptiness test left out
CheckImages_NoExit ==
    /\ pc = "check"
    /\ pc' = "save"
    /\ UNCHANGED <<argSizes, sizes, images, drawing, i, png, img, console, exit,
                   icoFile, encArgs, loadCount, writeCount, attempts, run, first>>

\* lines 76-78: nothing to save
CheckImages ==
    /\ pc = "check"
    /\ IF images = <<>>
       THEN /\ console' = Append(console, Line("no_images", 0))
            /\ exit' = 1
            /\ pc' = "done"
       ELSE /\ pc' = "save"
            /\ UNCHANGED <<console, exit>>
    /\ UNCHANGED <<argSizes, sizes, images, drawing, i, png, img, icoFile,
                   encArgs, loadCount, writeCount, attempts, run, first>>

\* lines 82-86: images[0].save(ico_path, format='ICO', sizes=[...])
SaveCall ==
    /\ pc = "save"
    /\ encArgs' = [called |-> TRUE, bitmaps |-> <<images[1]>>,
                   sizes |-> SizeDirectory(images)]
    /\ pc' = "encode"
    /\ UNCHANGED <<argSizes, sizes, images, drawing, i, png, img, console,
                   exit, icoFile, loadCount, writeCount, attempts, run, first>>


\* a save error that is reported but does not change the exit status
Encode_ExitZero ==
    /\ pc = "encode"
    /\ writeCount' = writeCount + 1
    /\ \/ /\ icoFile' = [state |-> "written", bitmaps |-> encArgs.bitmaps,
                         sizes |-> encArgs.sizes]
          /\ console' = Append(console, Line("success", 0))
       \/ /\ icoFile' \in {icoFile, [state |-> "partial", bitmaps |-> <<>>, sizes |-> <<>>]}
          /\ console' = Append(console, Line("save_error", 0))
    /\ exit' = 0
    /\ pc' = "done"
    /\ UNCHANGED <<argSizes, sizes, images, drawing, i, png, img, encArgs,
                   loadCount, attempts, run, first>>

\* lines 81-90: the encoder writes the file or raises
Encode ==
    /\ pc = "encode"
    /\ writeCount' = writeCount + 1
    /\ \/ /\ icoFile' = [state |-> "written", bitmaps |-> encArgs.bitmaps,
                         sizes |-> encArgs.sizes]
          /\ console' = Append(console, Line("success", 0))
          /\ exit' = 0
       \/ /\ icoFile' \in {icoFile, [state |-> "partial", bitmaps |-> <<>>, sizes |-> <<>>]}
          /\ console' = Append(console, Line("save_error", 0))
          /\ exit' = 1
    /\ pc' = "done"
    /\ UNCHANGED <<argSizes, sizes, images, drawing, i, png, img, encArgs,
                   loadCount, attempts, run, first>>

\* the script is started again with the same arguments; the process state
\* (exit status, console, counters) is new, the file system is kept
Rerun ==
    /\ pc = "done"
    /\ run = 1
    /\ run' = run + 1
    /\ first' = [done |-> TRUE, images |-> images, encArgs |-> encArgs,
                 console |-> console, exit |-> exit]
    /\ pc' = "import"
    /\ console' = <<>>
    /\ exit' = Running
    /\ encArgs' = NoArgs
    /\ loadCount' = 0
    /\ writeCount' = 0
    /\ attempts' = <<>>
    /\ UNCHANGED <<argSizes, sizes, images, drawing, i, png, img, icoFile>>

Next ==
    \/ ImportGuard
    \/ Main
    \/ Begin
    \/ Load
    \/ LoopHead
    \/ Scale
    \/ Render
    \/ Decode
    \/ Resize
    \/ Normalize
    \/ AppendImg
    \/ Handler
    \/ CheckImages
    \/ SaveCall
    \/ Encode

Spec == Init /\ [][Next]_vars

\* the two-run harness: explicit size lists over a smaller set
SizeSetTwice == {16, 32}

InitTwice ==
    /\ Init
    /\ ~argSizes.none
    /\ argSizes.val \in SeqsUpTo(SizeSetTwice, MaxLenTwice)

NextTwice == Next \/ Rerun

SpecTwice == InitTwice /\ [][NextTwice]_vars

\* ------------------------------------------------------ derived quantities
Last(q) == q[Len(q)]

IsSizeLine(l) == l.kind \in {"created", "warning"}
IsCreated(l) == l.kind = "created"

\* the per-size progress lines printed so far, and the sizes reported created
SizeLines == SelectSeq(console, IsSizeLine)
CreatedLines == SelectSeq(console, IsCreated)
CreatedSizes == [k \in 1..Len(CreatedLines) |-> CreatedLines[k].size]
Squares(q) == [k \in 1..Len(q) |-> <<q[k], q[k]>>]

HasLine(kind) == \E k \in 1..Len(console) : console[k].kind = kind
HasWarning(s) == \E k \in 1..Len(console) : console[k] = Line("warning", s)

LoadErrors == {"svg_not_found", "load_failed", "load_error"}
FatalLines == LoadErrors \cup {"missing_library", "no_images", "save_error"}

\* the loop has been left: control is at or after the emptiness test
PastLoop ==
    \/ pc \in {"check", "save", "encode"}
    \/ pc = "done" /\ console # <<>>
                   /\ Last(console).kind \in {"no_images", "success", "save_error"}

FileUntouched == writeCount = 0 /\ icoFile = UntouchedFile

\* ------------------------------------------------------------------ C1
\* C1: whenever the encode step is reached, the size directory handed to the
\* encoder is, in order, one (s, s) pair per loop iteration that reported
\* success and none for an iteration that failed; every collected image has
\* exactly the pixel dimensions (s, s) of its size, whatever the rasterizer
\* returned.
C1_SizeDirectory ==
    /\ Len(images) = Len(CreatedSizes)
    /\ \A k \in 1..Len(images) :
          /\ images[k].w = CreatedSizes[k]
          /\ images[k].h = CreatedSizes[k]
          /\ images[k].dw = CreatedSizes[k]
    /\ encArgs.called =>
          /\ encArgs.sizes = Squares(CreatedSizes)
          /\ Len(SizeLines) = Len(sizes)
          /\ \A k \in 1..Len(sizes) : SizeLines[k].size = sizes[k]

C1_Witness ==
    /\ encArgs.called
    /\ Len(images) >= 2
    /\ HasLine("warning")
    /\ png.dw = Last(images).dw
    /\ png.w # Last(images).w

\* ------------------------------------------------------------------ C2
\* C2: for every image the loop produced, the encode step receives that very
\* image as the bitmap of its (s, s) entry -- for every image, not only the
\* first.
C2_OwnPayload ==
    encArgs.called =>
       \A k \in 1..Len(images) :
          /\ encArgs.sizes[k] = <<images[k].w, images[k].h>>
          /\ \E b \in 1..Len(encArgs.bitmaps) : encArgs.bitmaps[b] = images[k]

\* ------------------------------------------------------------------ C3
\* C3: a failure inside one size's iteration never aborts the run: the
\* handler warns about that size, leaves the collection alone and goes on to
\* the next size; after the loop every size has been attempted, failed sizes
\* have a warning and no image, and a run with a success and a good write
\* exits 0.
C3_HandlerStep ==
    pc = "except" =>
       /\ pc' = "loop"
       /\ exit' = Running
       /\ images' = images
       /\ i' = i
       /\ console' = Append(console, Line("warning", sizes[i]))

C3_AfterLoop ==
    /\ pc = "except" => exit = Running
    /\ PastLoop =>
          /\ attempts = sizes
          /\ Len(SizeLines) = Len(sizes)
          /\ \A k \in 1..Len(sizes) : SizeLines[k].size = sizes[k]
          /\ Len(images) = Len(CreatedLines)
          /\ \A k \in 1..Len(images) : images[k].w = CreatedLines[k].size
    /\ (pc = "done" /\ PastLoop /\ images # <<>> /\ icoFile.state = "written"
          /\ writeCount = 1) => exit = 0

C3_ContinueAfterFailure == [][C3_HandlerStep]_vars /\ []C3_AfterLoop

C3_Witness ==
    /\ pc = "done"
    /\ sizes = <<16, 32, 48>>
    /\ HasWarning(32)
    /\ encArgs.sizes = <<<<16, 16>>, <<48, 48>>>>
    /\ exit = 0

\* ------------------------------------------------------------------ C4
\* C4: the encode/write step is only ever attempted with a non-empty
\* collection; when every size failed the run ends with the no-images error,
\* exit status 1, and the output file is never written or modified.
C4_NonEmptyBeforeEncode ==
    /\ pc \in {"save", "encode"} => images # <<>>
    /\ (encArgs.called \/ writeCount > 0) => images # <<>>
    /\ (pc = "done" /\ PastLoop /\ images = <<>>) =>
          /\ exit = 1
          /\ Last(console).kind = "no_images"
          /\ ~encArgs.called
          /\ FileUntouched

C4_Witness ==
    /\ pc = "done"
    /\ Len(sizes) >= 2
    /\ attempts = sizes
    /\ images = <<>>
    /\ icoFile = UntouchedFile

\* ------------------------------------------------------------------ C5
\* C5: when the source is missing, unparseable or yields no drawing, the
\* process exits non-zero before any size is processed (no attempt, no
\* scaling, no per-size line) and the output file is left untouched.
C5_LoadFailureStopsEarly ==
    (\E kind \in LoadErrors : HasLine(kind)) =>
       /\ pc = "done"
       /\ exit = 1
       /\ attempts = <<>>
       /\ SizeLines = <<>>
       /\ drawing = NoDrawing
       /\ images = <<>>
       /\ ~encArgs.called
       /\ FileUntouched

C5_Witness ==
    /\ pc = "done"
    /\ HasLine("load_failed")
    /\ ~argSizes.none /\ Len(argSizes.val) >= 2
    /\ icoFile = UntouchedFile

\* ------------------------------------------------------------------ C6
\* an upper bound on the number of steps left; every step lowers it
Rank ==
    CASE pc = "import" -> 1000
      [] pc = "main"   -> 999
      [] pc = "begin"  -> 998
      [] pc = "load"   -> 997
      [] pc = "loop"   -> 10 * (Len(sizes) - i) + 10
      [] pc = "scale"  -> 10 * (Len(sizes) - i) + 18
      [] pc = "render" -> 10 * (Len(sizes) - i) + 17
      [] pc = "decode" -> 10 * (Len(sizes) - i) + 16
      [] pc = "resize" -> 10 * (Len(sizes) - i) + 15
      [] pc = "mode"   -> 10 * (Len(sizes) - i) + 14
      [] pc = "append" -> 10 * (Len(sizes) - i) + 13
      [] pc = "except" -> 10 * (Len(sizes) - i) + 12
      [] pc = "check"  -> 5
      [] pc = "save"   -> 4
      [] pc = "encode" -> 3
      [] pc = "done"   -> 0

C6_Outcome ==
    /\ Rank >= 0
    /\ pc # "done" => (exit = Running /\ ENABLED Next)
    /\ pc = "done" =>
          /\ exit \in {0, 1}
          /\ exit = 0 <=> (icoFile.state = "written" /\ writeCount = 1
                           /\ Last(console).kind = "success")
          /\ (\E kind \in FatalLines : HasLine(kind)) => exit = 1
          /\ (PastLoop /\ images # <<>> /\ Last(console).kind # "save_error")
                => exit = 0

\* C6: every run terminates (each step lowers a non-negative rank and no
\* state before the end is stuck) with exactly one exit status, which is 0
\* exactly when the container was written: 1 for a missing library, a missing
\* input, a load failure, no images and an encode/write failure, 0 whenever a
\* size succeeded and the write succeeded.
C6_ExitStatus == [][Rank' < Rank]_vars /\ []C6_Outcome

C6_Witness ==
    /\ pc = "done"
    /\ exit = 0
    /\ HasLine("warning")
    /\ icoFile.state = "written"

\* ------------------------------------------------------------------ C7
\* the two runs reported the same lines: the same load and write outcomes and
\* the same success or failure for every size
SameOutcomes == first.done /\ first.console = console

SameMode(k) == first.images[k].mode = images[k].mode

\* C7: a second run with the same size list and the same per-size outcomes
\* collects as many images as the first, hands the encoder the same size
\* directory, and every image decoded in the same mode is the same image as
\* in the first run; nothing the first run left behind shows in the result.
C7_SecondRunSame ==
    (run = 2 /\ pc = "done" /\ SameOutcomes) =>
       /\ Len(images) = Len(first.images)
       /\ encArgs.called = first.encArgs.called
       /\ encArgs.sizes = first.encArgs.sizes
       /\ exit = first.exit
       /\ \A k \in 1..Len(images) :
             (k <= Len(first.images) /\ SameMode(k)) => images[k] = first.images[k]
       /\ (\A k \in 1..Len(images) : k <= Len(first.images) /\ SameMode(k))
             => encArgs = first.encArgs

C7_Witness ==
    /\ run = 2
    /\ pc = "done"
    /\ SameOutcomes
    /\ Len(images) >= 2
    /\ \A k \in 1..Len(images) : SameMode(k)
    /\ HasLine("success")

\* ------------------------------------------------------------------ C8
\* C8: at the moment size s is rasterized the drawing's nominal width and
\* height are s and the scale in effect is exactly s / 256, at every position
\* of the size list.
C8_ScaleAtRender ==
    pc = "render" =>
       /\ drawing.width = sizes[i]
       /\ drawing.height = sizes[i]
       /\ drawing.sn * RefSize = sizes[i] * drawing.sd

\* ------------------------------------------------------------------ C9
InBody == pc \in {"scale", "render", "decode", "resize", "mode", "append", "except"}

C9_State ==
    /\ loadCount <= 1
    /\ pc \in {"import", "main", "begin", "load"} => loadCount = 0
    /\ (InBody \/ pc = "loop" \/ PastLoop) => loadCount = 1
    /\ attempts = SubSeq(sizes, 1, i)
    /\ Len(SizeLines) = (IF InBody THEN i - 1 ELSE i)
    /\ \A k \in 1..Len(SizeLines) : SizeLines[k].size = sizes[k]
    /\ Len(images) = Len(CreatedSizes)
    /\ \A k \in 1..Len(images) : images[k].w = CreatedSizes[k]
    /\ writeCount <= 1
    /\ writeCount = 1 => (attempts = sizes /\ Len(SizeLines) = Len(sizes))
    /\ (\E kind \in FatalLines : HasLine(kind)) => (pc = "done" /\ exit = 1)

C9_Step ==
    /\ pc = "append" => (images' = Append(images, img)
                         /\ console' = Append(console, Line("created", sizes[i])))
    /\ pc # "append" => images' = images
    /\ pc = "except" => (pc' = "loop" /\ exit' = exit)
    /\ icoFile' # icoFile => (pc = "encode" /\ attempts = sizes)

\* C9: one load per run; the sizes are attempted once each in list order with
\* no retry; the collection grows by one image on a successful iteration and
\* is unchanged by a failed one, so it is always the successful subsequence
\* of the sizes processed; only the per-size error is absorbed; the file is
\* written at most once and only after every size was attempted.
C9_LinearPipeline == [][C9_Step]_vars /\ []C9_State

C9_Witness ==
    /\ pc = "done"
    /\ writeCount = 1
    /\ Len(sizes) >= 3
    /\ Len(images) >= 1
    /\ Len(images) < Len(sizes)
    /\ SizeLines[1].kind = "warning"

\* ----------------------------------------------------------------- C10
NormalMode(m) == IF m = "RGBA" THEN "RGBA" ELSE "RGB"

C10_Step ==
    /\ pc = "resize" => img'.mode = img.mode
    /\ (pc = "mode" /\ pc' = "append") =>
          img' = [img EXCEPT !.mode = NormalMode(img.mode)]
    /\ pc = "append" => images' = Append(images, img)

C10_State ==
    /\ pc \in {"resize", "mode"} => img.mode = png.mode
    /\ pc = "append" => img.mode = NormalMode(png.mode)
    /\ \A k \in 1..Len(images) : images[k].mode \in {"RGBA", "RGB"}

====
